---- MODULE Spec2Model ----
(***************************************************************************)
(* A model of the WhatsApp referral extractor: backend/extract_referrals.py *)
(* (line parser, JSON/CSV writers, batch ingestor) and backend/main.py      *)
(* (upload and search endpoints).                                           *)
(*                                                                          *)
(* Text is modelled character by character: a string is a sequence of       *)
(* one-character strings, a file is the sequence of its characters, a file  *)
(* name is the sequence of its characters, and a folder is a function from  *)
(* file names to file contents.  The alphabet is ASCII plus one token,      *)
(* BadByte, that stands for a byte sequence that is not valid UTF-8.        *)
(***************************************************************************)
EXTENDS Naturals, Sequences, FiniteSets, TLC

VARIABLES
    text,       \* SpecExtract: the content of the transcript file handed to the extractor
    referrals,  \* SpecExtract: what extract_service_referrals returned for it
    phase,      \* SpecExtract: "input" before the call, "extracted" after it
    uploads,    \* the input folder  (UPLOAD_FOLDER): file name -> bytes
    data,       \* the output folder (OUTPUT_FOLDER): file name -> characters
    lastOp,     \* the last operation run and its inputs
    resp,       \* what the last operation returned, printed or raised
    nuploads    \* the number of upload_chat calls so far

vars == <<text, referrals, phase, uploads, data, lastOp, resp, nuploads>>

(***************************************************************************)
(* Characters and strings.                                                 *)
(***************************************************************************)

\* A Python str literal as the sequence of its characters.
Chars(s) == [i \in 1..Len(s) |-> SubSeq(s, i, i)]

\* A byte sequence that the utf-8 codec rejects.
BadByte == "<FF>"

Digits == {"0", "1", "2", "3", "4", "5", "6", "7", "8", "9"}

UpperLetters == {"A", "B", "C", "D", "E", "F", "G", "H", "I", "J", "K", "L", "M",
                 "N", "O", "P", "Q", "R", "S", "T", "U", "V", "W", "X", "Y", "Z"}

LowerLetters == {"a", "b", "c", "d", "e", "f", "g", "h", "i", "j", "k", "l", "m",
                 "n", "o", "p", "q", "r", "s", "t", "u", "v", "w", "x", "y", "z"}

\* What the regular expression class \s matches (ASCII part).
Whitespace == {" ", "\t", "\n", "\r", "\f"}

\* What the regular expression class \w matches (ASCII part).
WordChars == Digits \cup UpperLetters \cup LowerLetters \cup {"_"}

\* str.lower() on one character.
LowerChar(c) ==
    CASE c = "A" -> "a" [] c = "B" -> "b" [] c = "C" -> "c" [] c = "D" -> "d"
      [] c = "E" -> "e" [] c = "F" -> "f" [] c = "G" -> "g" [] c = "H" -> "h"
      [] c = "I" -> "i" [] c = "J" -> "j" [] c = "K" -> "k" [] c = "L" -> "l"
      [] c = "M" -> "m" [] c = "N" -> "n" [] c = "O" -> "o" [] c = "P" -> "p"
      [] c = "Q" -> "q" [] c = "R" -> "r" [] c = "S" -> "s" [] c = "T" -> "t"
      [] c = "U" -> "u" [] c = "V" -> "v" [] c = "W" -> "w" [] c = "X" -> "x"
      [] c = "Y" -> "y" [] c = "Z" -> "z" [] OTHER -> c

\* str.lower()
Lower(s) == [i \in 1..Len(s) |-> LowerChar(s[i])]

\* Whether sub occurs in s starting at position i.
OccursAt(s, sub, i) ==
    /\ i >= 1
    /\ i + Len(sub) - 1 <= Len(s)
    /\ \A k \in 1..Len(sub) : s[i + k - 1] = sub[k]

\* The Python test  sub in s.
Contains(s, sub) == \E i \in 1..(Len(s) + 1) : OccursAt(s, sub, i)

\* str.endswith
EndsWith(s, suffix) ==
    /\ Len(suffix) <= Len(s)
    /\ OccursAt(s, suffix, Len(s) - Len(suffix) + 1)

\* str.replace(old, new): every non-overlapping occurrence, left to right.
RECURSIVE ReplaceFrom(_, _, _, _)
ReplaceFrom(s, old, new, i) ==
    IF i > Len(s) THEN <<>>
    ELSE IF OccursAt(s, old, i)
         THEN new \o ReplaceFrom(s, old, new, i + Len(old))
         ELSE <<s[i]>> \o ReplaceFrom(s, old, new, i + 1)

Replace(s, old, new) == ReplaceFrom(s, old, new, 1)

\* "".join(parts[lo..hi]): the concatenation of a sequence of strings, halving
\* the range so that long texts do not nest deeply.
RECURSIVE FlattenRange(_, _, _)
FlattenRange(parts, lo, hi) ==
    IF lo > hi THEN <<>>
    ELSE IF lo = hi THEN parts[lo]
    ELSE LET mid == (lo + hi) \div 2
         IN  FlattenRange(parts, lo, mid) \o FlattenRange(parts, mid + 1, hi)

Flatten(parts) == FlattenRange(parts, 1, Len(parts))

\* The least element of a non-empty set of numbers.
Least(S) == CHOOSE x \in S : \A y \in S : x <= y

\* A local variable: body applied to the value of v, which is computed once.
Local(v, body(_)) == CHOOSE r \in {body(x) : x \in {v}} : TRUE

(***************************************************************************)
(* Reading a transcript: open(file_path, "r", encoding="utf-8") and         *)
(* readlines().                                                             *)
(***************************************************************************)

\* Whether the utf-8 codec decodes the bytes (otherwise UnicodeDecodeError).
Decodable(bytes) == \A i \in 1..Len(bytes) : bytes[i] # BadByte

\* Text mode's universal newlines: "\r\n" and a lone "\r" are read as "\n".
TranslateNewlines(s) ==
    Flatten([j \in 1..Len(s) |->
                IF s[j] = "\r" THEN <<"\n">>
                ELSE IF s[j] = "\n" /\ j > 1 /\ s[j - 1] = "\r" THEN <<>>
                ELSE <<s[j]>>])

\* file.readlines(): the lines, each keeping its "\n"; a last line may lack it.
RECURSIVE ReadLines(_, _)
ReadLines(s, i) ==
    IF i > Len(s) THEN <<>>
    ELSE LET ends == {k \in i..Len(s) : s[k] = "\n"}
             e == IF ends = {} THEN Len(s) ELSE Least(ends)
         IN  <<SubSeq(s, i, e)>> \o ReadLines(s, e + 1)

(***************************************************************************)
(* The line pattern of extract_service_referrals, applied with re.search:   *)
(* a bracketed timestamp  [dd/dd/dd, d:dd XX]  (the hour has one or two     *)
(* digits, X is a character of the class [APM]), a space, a lazy group for  *)
(* the sender, a colon and a space, and a greedy group for the message.     *)
(***************************************************************************)

NoMatch == [matched |-> FALSE]

\* The character class [APM] of the line pattern.
MarkerChars == {"A", "P", "M"}

IsDigitAt(line, k) == k >= 1 /\ k <= Len(line) /\ line[k] \in Digits

IsCharAt(line, k, c) == k >= 1 /\ k <= Len(line) /\ line[k] = c

\* The bracketed timestamp matched from position i with an hour of h digits:
\* the position after "] " when it matches, 0 when it does not.
HeaderEnd(line, i, h) ==
    LET q == i + 11 + h
    IN  IF /\ IsCharAt(line, i, "[")
           /\ IsDigitAt(line, i + 1) /\ IsDigitAt(line, i + 2)
           /\ IsCharAt(line, i + 3, "/")
           /\ IsDigitAt(line, i + 4) /\ IsDigitAt(line, i + 5)
           /\ IsCharAt(line, i + 6, "/")
           /\ IsDigitAt(line, i + 7) /\ IsDigitAt(line, i + 8)
           /\ IsCharAt(line, i + 9, ",")
           /\ IsCharAt(line, i + 10, " ")
           /\ \A k \in 1..h : IsDigitAt(line, i + 10 + k)
           /\ IsCharAt(line, q, ":")
           /\ IsDigitAt(line, q + 1) /\ IsDigitAt(line, q + 2)
           /\ IsCharAt(line, q + 3, " ")
           /\ q + 5 <= Len(line)
           /\ line[q + 4] \in MarkerChars /\ line[q + 5] \in MarkerChars
           /\ IsCharAt(line, q + 6, "]")
           /\ IsCharAt(line, q + 7, " ")
        THEN q + 8
        ELSE 0

\* The pattern tried at position i of the line: the groups (sender, message).
\* The lazy group takes the fewest characters up to a ": ", the greedy group
\* the rest of the line; neither crosses a "\n".
MatchLineAt(line, i) ==
    LET hs == {h \in {1, 2} : HeaderEnd(line, i, h) # 0}
    IN  IF hs = {} THEN NoMatch
        ELSE LET s == HeaderEnd(line, i, CHOOSE h \in hs : TRUE)
                 nls == {k \in s..Len(line) : line[k] = "\n"}
                 stop == IF nls = {} THEN Len(line) + 1 ELSE Least(nls)
                 seps == {t \in s..(stop - 2) : line[t] = ":" /\ line[t + 1] = " "}
             IN  IF seps = {} THEN NoMatch
                 ELSE LET t == Least(seps)
                      IN  [matched |-> TRUE,
                           sender |-> SubSeq(line, s, t - 1),
                           message |-> SubSeq(line, t + 2, stop - 1)]

\* re.search: the match at the leftmost position where the pattern matches.
SearchLine(line) ==
    LET starts == {i \in 1..Len(line) : MatchLineAt(line, i).matched}
    IN  IF starts = {} THEN NoMatch ELSE MatchLineAt(line, Least(starts))

(***************************************************************************)
(* The keyword test, the phone pattern and the business pattern.            *)
(***************************************************************************)

\* keywords of extract_service_referrals.
keywords ==
    {Chars("recommend"), Chars("try"), Chars("call"), Chars("great"),
     Chars("looking for"), Chars("know a good"), Chars("fixed my"),
     Chars("super reliable")}

\* any(keyword in message.lower() for keyword in keywords)
HasKeyword(message) == \E keyword \in keywords : Contains(Lower(message), keyword)

\* The class [-.\s] of the phone pattern.
PhoneSeparators == {"-", "."} \cup Whitespace

\* \b between positions k - 1 and k: exactly one side is a \w character.
WordBoundary(s, k) ==
    (k >= 2 /\ k - 1 <= Len(s) /\ s[k - 1] \in WordChars)
        # (k >= 1 /\ k <= Len(s) /\ s[k] \in WordChars)

\* The position after an optional separator tried at position p.
SkipSeparator(s, p) == IF p <= Len(s) /\ s[p] \in PhoneSeparators THEN p + 1 ELSE p

\* The phone pattern (a word boundary, 3 digits, an optional separator,
\* 3 digits, an optional separator, 4 digits, a word boundary) tried at
\* position i: the position after the match, 0 when it does not match.
PhoneEnd(s, i) ==
    LET a == SkipSeparator(s, i + 3)
        b == SkipSeparator(s, a + 3)
    IN  IF /\ WordBoundary(s, i)
           /\ \A k \in i..(i + 2) : IsDigitAt(s, k)
           /\ \A k \in a..(a + 2) : IsDigitAt(s, k)
           /\ \A k \in b..(b + 3) : IsDigitAt(s, k)
           /\ WordBoundary(s, b + 4)
        THEN b + 4
        ELSE 0

\* re.findall: the non-overlapping matches, left to right from position i.
RECURSIVE FindPhones(_, _)
FindPhones(s, i) ==
    IF i > Len(s) THEN <<>>
    ELSE IF PhoneEnd(s, i) # 0
         THEN <<SubSeq(s, i, PhoneEnd(s, i) - 1)>> \o FindPhones(s, PhoneEnd(s, i))
         ELSE FindPhones(s, i + 1)

NoContactFound == Chars("No Contact Found")

\* A mutant of Contact: the last number found instead of the first.
ContactLast(message) ==
    LET phone_numbers == FindPhones(message, 1)
    IN  IF phone_numbers # <<>> THEN phone_numbers[Len(phone_numbers)] ELSE NoContactFound

\* phone_numbers[0] if phone_numbers else "No Contact Found"
Contact(message) ==
    LET phone_numbers == FindPhones(message, 1)
    IN  IF phone_numbers # <<>> THEN phone_numbers[1] ELSE NoContactFound

\* [a-z]+ from position j, which holds a lower-case letter: its last position.
RECURSIVE LowerRunEnd(_, _)
LowerRunEnd(s, j) ==
    IF j + 1 <= Len(s) /\ s[j + 1] \in LowerLetters THEN LowerRunEnd(s, j + 1) ELSE j

\* Whether [A-Z][a-z]+ matches at position i.
CapitalWordAt(s, i) ==
    /\ i >= 1
    /\ i + 1 <= Len(s)
    /\ s[i] \in UpperLetters
    /\ s[i + 1] \in LowerLetters

\* The repeated group (a \s character and one more capitalised word) after a
\* word that ends at position j: the last position of the whole match.
RECURSIVE BusinessEnd(_, _)
BusinessEnd(s, j) ==
    IF j + 1 <= Len(s) /\ s[j + 1] \in Whitespace /\ CapitalWordAt(s, j + 2)
    THEN BusinessEnd(s, LowerRunEnd(s, j + 3))
    ELSE j

UnknownBusiness == Chars("Unknown Business")

\* A mutant of BusinessName: the match stops after its first word.
BusinessFirstWord(message) ==
    LET starts == {i \in 1..Len(message) : CapitalWordAt(message, i)}
    IN  IF starts = {} THEN UnknownBusiness
        ELSE LET i == Least(starts)
             IN  SubSeq(message, i, LowerRunEnd(message, i + 1))

\* business_match.group(0) if business_match else "Unknown Business"
BusinessName(message) ==
    LET starts == {i \in 1..Len(message) : CapitalWordAt(message, i)}
    IN  IF starts = {} THEN UnknownBusiness
        ELSE LET i == Least(starts)
             IN  SubSeq(message, i, BusinessEnd(message, LowerRunEnd(message, i + 1)))

(***************************************************************************)
(* extract_service_referrals                                                *)
(***************************************************************************)

\* The record appended for a line whose message holds a keyword.
Referral(sender, message) ==
    [sender |-> sender,
     business_name |-> BusinessName(message),
     contact |-> Contact(message),
     message |-> message]

\* The loop over the lines, from line k on.
RECURSIVE ScanLines(_, _)
ScanLines(lines, k) ==
    IF k > Len(lines) THEN <<>>
    ELSE Local(SearchLine(lines[k]), LAMBDA match :
             IF match.matched /\ HasKeyword(match.message)
             THEN <<Referral(match.sender, match.message)>> \o ScanLines(lines, k + 1)
             ELSE ScanLines(lines, k + 1))

\* The call on a file that holds bytes: the list returned, or the
\* UnicodeDecodeError raised by readlines().
extract_service_referrals(bytes) ==
    IF ~Decodable(bytes)
    THEN [raised |-> "UnicodeDecodeError", referrals |-> <<>>]
    ELSE [raised |-> "",
          referrals |-> ScanLines(ReadLines(TranslateNewlines(bytes), 1), 1)]

(***************************************************************************)
(* save_to_json / json.load and save_to_csv: files as their characters.     *)
(***************************************************************************)

\* fieldnames, the order of the keys of a record.
FieldNames == <<"sender", "business_name", "contact", "message">>

\* How json.dump writes one character of a string (ensure_ascii, ASCII input).
JsonEscapeChar(c) ==
    CASE c = "\"" -> <<"\\", "\"">>
      [] c = "\\" -> <<"\\", "\\">>
      [] c = "\n" -> <<"\\", "n">>
      [] c = "\r" -> <<"\\", "r">>
      [] c = "\t" -> <<"\\", "t">>
      [] c = "\f" -> <<"\\", "f">>
      [] OTHER -> <<c>>

\* A string as a JSON string literal.
JsonString(str) ==
    <<"\"">> \o Flatten([j \in 1..Len(str) |-> JsonEscapeChar(str[j])]) \o <<"\"">>

\* One record as a JSON object at indent level 1 of indent=4.
JsonObject(r) ==
    Chars("    {\n")
        \o Flatten([f \in 1..Len(FieldNames) |->
                      Chars("        ") \o JsonString(Chars(FieldNames[f])) \o Chars(": ")
                          \o JsonString(r[FieldNames[f]])
                          \o (IF f < Len(FieldNames) THEN Chars(",\n") ELSE Chars("\n"))])
        \o Chars("    }")

\* json.dump(referrals, json_file, indent=4): the characters written.
save_to_json(records) ==
    IF records = <<>> THEN Chars("[]")
    ELSE Chars("[\n")
            \o Flatten([k \in 1..Len(records) |->
                          JsonObject(records[k])
                              \o (IF k < Len(records) THEN Chars(",\n") ELSE Chars("\n"))])
            \o Chars("]")

\* QUOTE_MINIMAL: a field is quoted when it holds the delimiter, the quote
\* character or a character of the line terminator; quotes are doubled.
CsvField(str) ==
    IF \E j \in 1..Len(str) : str[j] \in {",", "\"", "\r", "\n"}
    THEN <<"\"">>
            \o Flatten([j \in 1..Len(str) |-> IF str[j] = "\"" THEN <<"\"", "\"">> ELSE <<str[j]>>])
            \o <<"\"">>
    ELSE str

\* One row of the csv writer: the fields, commas between them, "\r\n" after.
CsvRow(fields) ==
    Flatten([f \in 1..Len(fields) |->
                CsvField(fields[f]) \o (IF f < Len(fields) THEN <<",">> ELSE <<"\r", "\n">>)])

\* writer.writeheader(); writer.writerows(referrals): the characters written.
save_to_csv(records) ==
    CsvRow([f \in 1..Len(FieldNames) |-> Chars(FieldNames[f])])
        \o Flatten([k \in 1..Len(records) |->
                      CsvRow([f \in 1..Len(FieldNames) |-> records[k][FieldNames[f]]])])

\* The str that a sequence of characters spells.
RECURSIVE Str(_)
Str(chars) == IF chars = <<>> THEN "" ELSE chars[1] \o Str(Tail(chars))

JsonFail == [ok |-> FALSE]

JsonWhitespace == {" ", "\t", "\n", "\r"}

\* The first position from p on that holds no JSON whitespace.
RECURSIVE SkipWhitespace(_, _)
SkipWhitespace(s, p) ==
    IF p <= Len(s) /\ s[p] \in JsonWhitespace THEN SkipWhitespace(s, p + 1) ELSE p

\* The character that a backslash and c stand for.
JsonUnescapeChar(c) ==
    CASE c = "n" -> "\n" [] c = "r" -> "\r" [] c = "t" -> "\t" [] c = "f" -> "\f"
      [] OTHER -> c

\* The rest of a string literal from position k on, value being what was read
\* of it so far: the whole value and the position after the closing quote.
RECURSIVE JsonScanString(_, _, _)
JsonScanString(s, k, value) ==
    IF k > Len(s) THEN JsonFail
    ELSE IF s[k] = "\"" THEN [ok |-> TRUE, value |-> value, next |-> k + 1]
    ELSE IF s[k] = "\\"
         THEN IF k + 1 > Len(s) THEN JsonFail
              ELSE JsonScanString(s, k + 2, Append(value, JsonUnescapeChar(s[k + 1])))
         ELSE JsonScanString(s, k + 1, Append(value, s[k]))

\* The JSON string literal that opens at position p.
JsonParseString(s, p) ==
    IF ~IsCharAt(s, p, "\"") THEN JsonFail ELSE JsonScanString(s, p + 1, <<>>)

\* The members of an object from position p on (p is past "{" or past a
\* comma), added to the dict obj: the dict and the position after "}".
RECURSIVE JsonParseMembers(_, _, _)
JsonParseMembers(s, p, obj) ==
    LET key == JsonParseString(s, SkipWhitespace(s, p))
    IN  IF ~key.ok THEN JsonFail
        ELSE LET colon == SkipWhitespace(s, key.next)
                 val == JsonParseString(s, SkipWhitespace(s, colon + 1))
             IN  IF ~IsCharAt(s, colon, ":") \/ ~val.ok THEN JsonFail
                 ELSE LET name == Str(key.value)
                          dict == [f \in DOMAIN obj \cup {name} |->
                                      IF f = name THEN val.value ELSE obj[f]]
                          after == SkipWhitespace(s, val.next)
                      IN  IF IsCharAt(s, after, ",") THEN JsonParseMembers(s, after + 1, dict)
                          ELSE IF IsCharAt(s, after, "}")
                               THEN [ok |-> TRUE, value |-> dict, next |-> after + 1]
                               ELSE JsonFail

\* The elements of an array from position p on (p is past "[" or past a
\* comma), appended to list: the list and the position after "]".
RECURSIVE JsonParseElements(_, _, _)
JsonParseElements(s, p, list) ==
    LET open == SkipWhitespace(s, p)
    IN  IF ~IsCharAt(s, open, "{") THEN JsonFail
        ELSE LET obj == IF IsCharAt(s, SkipWhitespace(s, open + 1), "}")
                        THEN [ok |-> TRUE, value |-> [f \in {} |-> <<>>],
                              next |-> SkipWhitespace(s, open + 1) + 1]
                        ELSE JsonParseMembers(s, open + 1, [f \in {} |-> <<>>])
             IN  IF ~obj.ok THEN JsonFail
                 ELSE LET after == SkipWhitespace(s, obj.next)
                      IN  IF IsCharAt(s, after, ",")
                          THEN JsonParseElements(s, after + 1, Append(list, obj.value))
                          ELSE IF IsCharAt(s, after, "]")
                               THEN [ok |-> TRUE, value |-> Append(list, obj.value),
                                     next |-> after + 1]
                               ELSE JsonFail

\* json.load on a file that holds the characters s, for the documents this
\* program writes: an array of objects whose keys and values are strings.
\* ok is FALSE where json.load raises JSONDecodeError.
json_load(s) ==
    LET open == SkipWhitespace(s, 1)
    IN  IF ~IsCharAt(s, open, "[") THEN JsonFail
        ELSE LET list == IF IsCharAt(s, SkipWhitespace(s, open + 1), "]")
                         THEN [ok |-> TRUE, value |-> <<>>,
                               next |-> SkipWhitespace(s, open + 1) + 1]
                         ELSE JsonParseElements(s, open + 1, <<>>)
             IN  IF list.ok /\ SkipWhitespace(s, list.next) > Len(s)
                 THEN [ok |-> TRUE, value |-> list.value]
                 ELSE JsonFail

(***************************************************************************)
(* The folders and the three operations: upload_chat and search_referrals   *)
(* of main.py, process_uploaded_files of extract_referrals.py.              *)
(***************************************************************************)

\* A file whose bytes are not valid UTF-8.
UndecodableInput == Chars("[01/02/23, 9:15 AM] Ann: call ") \o <<BadByte, "\n">>

\* No file in a folder.
EmptyFolder == [name \in {} |-> <<>>]

NoOp == [kind |-> "none"]

\* The most upload_chat calls of a run of the model.
MaxUploads == 2

\* open(path, "w") and write: the folder with the file created or overwritten.
WriteFile(folder, name, content) ==
    [n \in DOMAIN folder \cup {name} |-> IF n = name THEN content ELSE folder[n]]

\* os.remove(path)
RemoveFile(folder, name) == [n \in DOMAIN folder \ {name} |-> folder[n]]

\* filename.replace(".txt", ".json")
json_file(filename) == Replace(filename, Chars(".txt"), Chars(".json"))

\* filename.replace(".txt", ".csv")
csv_file(filename) == Replace(filename, Chars(".txt"), Chars(".csv"))

\* A mutant of SaveOutputs: a file that yields no referral has its outputs removed.
SaveOrClearOutputs(folder, filename, records) ==
    IF records # <<>>
    THEN WriteFile(WriteFile(folder, json_file(filename), save_to_json(records)),
                   csv_file(filename), save_to_csv(records))
    ELSE RemoveFile(RemoveFile(folder, json_file(filename)), csv_file(filename))

\* if referrals: save_to_json(referrals, json_file); save_to_csv(referrals, csv_file)
SaveOutputs(folder, filename, records) ==
    IF records # <<>>
    THEN WriteFile(WriteFile(folder, json_file(filename), save_to_json(records)),
                   csv_file(filename), save_to_csv(records))
    ELSE folder

\* os.listdir restricted to the names that pass a test: the names in any order.
Listings(names) ==
    {l \in [1..Cardinality(names) -> names] : \A i, j \in DOMAIN l : l[i] = l[j] => i = j}

\* A mutant of UploadResult: the uploaded file is removed once processed.
UploadAndRemove(inbox, outbox, filename, bytes) ==
    Local(extract_service_referrals(bytes), LAMBDA result :
        IF result.raised # ""
        THEN [uploads |-> WriteFile(inbox, filename, bytes), data |-> outbox,
              resp |-> [raised |-> result.raised]]
        ELSE [uploads |-> RemoveFile(inbox, filename),
              data |-> SaveOutputs(outbox, filename, result.referrals),
              resp |-> IF result.referrals # <<>>
                       THEN [raised |-> "",
                             message |-> "Extracted " \o ToString(Len(result.referrals))
                                             \o " referrals.",
                             data |-> result.referrals]
                       ELSE [raised |-> "", message |-> "No referrals found."]])

\* The body of upload_chat: the folders afterwards and the response, or the
\* exception that leaves the handler.
UploadResult(inbox, outbox, filename, bytes) ==
    Local(extract_service_referrals(bytes), LAMBDA result :
        IF result.raised # ""
        THEN [uploads |-> WriteFile(inbox, filename, bytes), data |-> outbox,
              resp |-> [raised |-> result.raised]]
        ELSE [uploads |-> WriteFile(inbox, filename, bytes),
              data |-> SaveOutputs(outbox, filename, result.referrals),
              resp |-> IF result.referrals # <<>>
                       THEN [raised |-> "",
                             message |-> "Extracted " \o ToString(Len(result.referrals))
                                             \o " referrals.",
                             data |-> result.referrals]
                       ELSE [raised |-> "", message |-> "No referrals found."]])

\* A mutant of ProcessFile: the source file is removed only when it yielded referrals.
ProcessFileKeepEmpty(st, filename) ==
    IF ~EndsWith(filename, Chars(".txt")) THEN st
    ELSE Local(extract_service_referrals(st.uploads[filename]), LAMBDA result :
         LET started == Append(st.printed, "Processing " \o Str(filename) \o "...")
         IN  IF result.raised # ""
             THEN [st EXCEPT !.printed = started, !.raised = result.raised]
             ELSE [uploads |-> IF result.referrals # <<>>
                               THEN RemoveFile(st.uploads, filename) ELSE st.uploads,
                   data |-> SaveOutputs(st.data, filename, result.referrals),
                   printed |-> Append(started,
                                  IF result.referrals # <<>>
                                  THEN "Extracted " \o ToString(Len(result.referrals))
                                           \o " referrals from " \o Str(filename) \o "."
                                  ELSE "No referrals found in " \o Str(filename) \o "."),
                   raised |-> ""])

\* One turn of the loop of process_uploaded_files on the state st of the run
\* (the folders, the lines printed, the exception raised if any).
ProcessFile(st, filename) ==
    IF ~EndsWith(filename, Chars(".txt")) THEN st
    ELSE Local(extract_service_referrals(st.uploads[filename]), LAMBDA result :
         LET started == Append(st.printed, "Processing " \o Str(filename) \o "...")
         IN  IF result.raised # ""
             THEN [st EXCEPT !.printed = started, !.raised = result.raised]
             ELSE [uploads |-> RemoveFile(st.uploads, filename),
                   data |-> SaveOutputs(st.data, filename, result.referrals),
                   printed |-> Append(started,
                                  IF result.referrals # <<>>
                                  THEN "Extracted " \o ToString(Len(result.referrals))
                                           \o " referrals from " \o Str(filename) \o "."
                                  ELSE "No referrals found in " \o Str(filename) \o "."),
                   raised |-> ""])

\* The loop over os.listdir(UPLOAD_FOLDER) from its k-th name on; an exception
\* ends it.
RECURSIVE BatchLoop(_, _, _)
BatchLoop(listing, k, st) ==
    IF k > Len(listing) \/ st.raised # "" THEN st
    ELSE Local(ProcessFile(st, listing[k]), LAMBDA next : BatchLoop(listing, k + 1, next))

\* query.lower() in r["message"].lower()
MessageMatches(r, query) == Contains(Lower(r.message), Lower(query))

\* The loop of search_referrals over the .json names listed, from the k-th on:
\* the results gathered, or the exception of the first file that does not parse.
RECURSIVE SearchLoop(_, _, _, _)
SearchLoop(folder, listing, k, query) ==
    IF k > Len(listing) THEN [raised |-> "", results |-> <<>>]
    ELSE Local(json_load(folder[listing[k]]), LAMBDA loaded :
         LET rest == SearchLoop(folder, listing, k + 1, query)
         IN  IF ~loaded.ok THEN [raised |-> "JSONDecodeError"]
             ELSE IF rest.raised # "" THEN rest
             ELSE [raised |-> "",
                   results |-> SelectSeq(loaded.value, LAMBDA r : MessageMatches(r, query))
                                   \o rest.results])

\* The file names that requests and the input folder use.
FileNames == {Chars("a.txt"), Chars("b.txt"), Chars("a.json")}

CallJohn == Chars("[01/02/23, 9:15 AM] Ann: Call John 555-123-4567 now\n")

NoReferral == Chars("[01/02/23, 9:16 AM] Bob Lee: see you at 5\n")

Quoted ==
    Chars("[01/02/23, 9:17 PM] Cy: try \"Blue Sky\", C:\\new\n")
        \o Chars("[01/02/23, 9:18 PM] Ann: I recommend Blue Sky\n")

\* The bytes that are uploaded.
Uploads == {CallJohn, NoReferral, Quoted, UndecodableInput}

\* The queries that are searched.
Queries == {Chars("JOHN"), Chars("ann"), Chars("blue")}

Init ==
    /\ uploads = EmptyFolder
    /\ data = EmptyFolder
    /\ lastOp = NoOp
    /\ resp = NoOp
    /\ nuploads = 0
    /\ text = <<>>
    /\ referrals = <<>>
    /\ phase = "idle"

\* POST /upload-chat/ with a file of the given name and bytes.
upload_chat(filename, bytes) ==
    /\ nuploads < MaxUploads
    /\ \E after \in {UploadResult(uploads, data, filename, bytes)} :
           /\ uploads' = after.uploads
           /\ data' = after.data
           /\ resp' = after.resp
    /\ lastOp' = [kind |-> "upload", filename |-> filename, bytes |-> bytes,
                  uploads |-> uploads, data |-> data]
    /\ nuploads' = nuploads + 1
    /\ UNCHANGED <<text, referrals, phase>>

\* One batch run over the input folder, listed in the given order.
process_uploaded_files(listing) ==
    /\ \E after \in {BatchLoop(listing, 1,
                        [uploads |-> uploads, data |-> data, printed |-> <<>>, raised |-> ""])} :
           /\ uploads' = after.uploads
           /\ data' = after.data
           /\ resp' = [raised |-> after.raised, printed |-> after.printed]
    /\ lastOp' = [kind |-> "batch", listing |-> listing, uploads |-> uploads, data |-> data]
    /\ UNCHANGED <<nuploads, text, referrals, phase>>

\* GET /search/?query=..., the .json files of the output folder listed in the
\* given order.
search_referrals(query, listing) ==
    /\ \E found \in {SearchLoop(data, listing, 1, query)} :
           resp' = IF found.raised # "" THEN found
                   ELSE [raised |-> "", query |-> query, results |-> found.results]
    /\ lastOp' = [kind |-> "search", query |-> query, listing |-> listing,
                  uploads |-> uploads, data |-> data]
    /\ UNCHANGED <<uploads, data, nuploads, text, referrals, phase>>

Next ==
    \/ \E filename \in FileNames, bytes \in Uploads : upload_chat(filename, bytes)
    \/ \E listing \in Listings(DOMAIN uploads) : process_uploaded_files(listing)
    \/ \E query \in Queries,
          listing \in Listings({n \in DOMAIN data : EndsWith(n, Chars(".json"))}) :
              search_referrals(query, listing)

Spec == Init /\ [][Next]_vars

(***************************************************************************)
(* The extractor on its own: a transcript is drawn from TranscriptInputs    *)
(* and extract_service_referrals is applied to it.                          *)
(***************************************************************************)

\* The most lines a transcript built from CoreLines has.
MaxLines == 3

\* What precedes the sender on a line: export timestamps, well-formed and not.
Headers ==
    {Chars("[01/02/23, 9:15 AM] "),     \* one-digit hour
     Chars("[11/12/24, 10:05 PM] "),    \* two-digit hour
     Chars("~[01/02/23, 9:15 AM] "),    \* a character before the bracket
     Chars("[01/02/23, 9:15 MM] "),     \* a marker that is neither AM nor PM
     Chars("[1/02/23, 9:15 AM] "),      \* a one-digit day
     Chars("01/02/23, 9:15 AM - "),     \* no brackets
     <<>>}                              \* no timestamp at all

Senders == {Chars("Ann"), Chars("Bob Lee")}

Messages ==
    {Chars("I recommend Blue Sky Plumbing for repairs"),
     Chars("recommend Blue Sky Plumbing today"),
     Chars("Call John 555-123-4567 now"),
     Chars("see you at 5"),
     Chars("GREAT job"),
     Chars("try 555.123.4567 or 5551234567"),
     Chars("call555-123-4567"),
     Chars("call 555\t123\t4567"),
     Chars("call 15551234567"),
     Chars("call 555 123 4567"),
     Chars("call 555--123-4567"),
     Chars("call 555-123-45678"),
     Chars("try iPhone"),
     Chars("try McDonalds"),
     Chars("call Blue\tSky"),
     Chars("try Al  Bo"),
     Chars("country club"),
     Chars("Blue Sky is nice"),
     Chars("note: call me"),
     Chars("I recommend trying them, great service")}

LineEndings == {<<"\n">>, <<"\r", "\n">>, <<>>}

\* One transcript line without its line ending.
LineOf(header, sender, message) == header \o sender \o Chars(": ") \o message

\* The lines that transcripts of several lines are built from.
CoreLines ==
    <<Chars("[01/02/23, 9:15 AM] Ann: Call John 555-123-4567 now\n"),
      Chars("[01/02/23, 9:16 AM] Bob Lee: see you at 5\n"),
      Chars("[01/02/23, 9:17 PM] Bob Lee: I recommend Blue Sky Plumbing\n"),
      Chars("01/02/23, 9:18 AM - Ann: try this\n"),
      Chars("[01/02/23, 9:19 MA] Ann: great\n")>>

TranscriptInputs ==
    {LineOf(h, s, m) \o e : h \in Headers, s \in Senders, m \in Messages, e \in LineEndings}
        \cup {Flatten([k \in DOMAIN pick |-> CoreLines[pick[k]]]) :
                 pick \in UNION {[1..n -> 1..Len(CoreLines)] : n \in 2..MaxLines}}
        \cup {<<>>, UndecodableInput}

InitExtract ==
    /\ text \in TranscriptInputs
    /\ referrals = <<>>
    /\ phase = "input"
    /\ uploads = EmptyFolder
    /\ data = EmptyFolder
    /\ lastOp = NoOp
    /\ resp = NoOp
    /\ nuploads = 0

\* referrals = extract_service_referrals(file_path) on a file that holds text.
Extract ==
    /\ phase = "input"
    /\ LET result == extract_service_referrals(text)
       IN  /\ referrals' = result.referrals
           /\ phase' = IF result.raised = "" THEN "extracted" ELSE "raised"
    /\ UNCHANGED <<text, uploads, data, lastOp, resp, nuploads>>

NextExtract == Extract

SpecExtract == InitExtract /\ [][NextExtract]_vars

(***************************************************************************)
(* Properties of the extractor, stated from the shapes the specification    *)
(* describes rather than from the scanning operators above.  A pattern is   *)
(* a string in which "d" stands for a digit, "X" for one of A and P, "S"    *)
(* for a separator of the class given, and any other character for itself.  *)
(***************************************************************************)

FitsChar(p, c, sepClass) ==
    CASE p = "d" -> c \in Digits
      [] p = "X" -> c \in {"A", "P"}
      [] p = "S" -> c \in sepClass
      [] OTHER -> c = p

\* Whether the pattern describes the characters of s from position i on.
Fits(pattern, s, i, sepClass) ==
    /\ i >= 1
    /\ i + Len(pattern) - 1 <= Len(s)
    /\ \A k \in 1..Len(pattern) : FitsChar(pattern[k], s[i + k - 1], sepClass)

\* [DD/MM/YY, H:MM AM|PM] and the space after it.
StampPatterns == {Chars("[dd/dd/dd, d:dd XM] "), Chars("[dd/dd/dd, dd:dd XM] ")}

\* The lines of the transcript under test, as the extractor reads them.
LinesOfText == ReadLines(TranslateNewlines(text), 1)

\* A line without its line ending.
Body(line) == IF line # <<>> /\ line[Len(line)] = "\n" THEN SubSeq(line, 1, Len(line) - 1) ELSE line

\* Every way to read a line as  [DD/MM/YY, H:MM AM|PM] sender: message.
ShapeParts(line) ==
    LET b == Body(line)
        cuts == {c \in (1..Len(b)) \X StampPatterns \X (1..Len(b)) :
                    /\ Fits(c[2], b, c[1], {})
                    /\ c[3] >= c[1] + Len(c[2])
                    /\ Fits(Chars(": "), b, c[3], {})}
    IN  {[sender |-> SubSeq(b, c[1] + Len(c[2]), c[3] - 1),
          message |-> SubSeq(b, c[3] + 2, Len(b))] : c \in cuts}

\* The lines that have the shape and whose message holds a keyword.
ReferralLines ==
    {k \in 1..Len(LinesOfText) : \E part \in ShapeParts(LinesOfText[k]) : HasKeyword(part.message)}

\* The n-th line of ReferralLines, in transcript order.
NthReferralLine(n) == CHOOSE k \in ReferralLines : Cardinality({j \in ReferralLines : j <= k}) = n

\* C1: the records are exactly one per line that has the shape
\* [DD/MM/YY, H:MM AM|PM] sender: message and whose lower-cased message holds
\* a keyword, in the order of those lines, duplicates kept.
C1_OneRecordPerReferralLine ==
    phase = "extracted" =>
        /\ Len(referrals) = Cardinality(ReferralLines)
        /\ \A n \in 1..Len(referrals) :
              n <= Cardinality(ReferralLines) =>
                  \E part \in ShapeParts(LinesOfText[NthReferralLine(n)]) :
                      /\ HasKeyword(part.message)
                      /\ referrals[n].sender = part.sender
                      /\ referrals[n].message = part.message

\* C2: a line that does not have the shape [DD/MM/YY, H:MM AM|PM] sender:
\* message produces no record: every record comes from a line that has it.
C2_NoRecordWithoutShape ==
    phase = "extracted" =>
        \A n \in 1..Len(referrals) :
            \E k \in 1..Len(LinesOfText) :
                [sender |-> referrals[n].sender, message |-> referrals[n].message]
                    \in ShapeParts(LinesOfText[k])

\* 3 digits, 3 digits, 4 digits, each boundary with or without a separator.
PhonePatterns ==
    {Chars("ddd") \o a \o Chars("ddd") \o b \o Chars("dddd") : a, b \in {<<>>, <<"S">>}}

\* The places <<first, last>> of the message that hold a phone number; when
\* bounded, only those with no letter, digit or underscore right before or after.
PhoneSpans(m, sepClass, bounded) ==
    {<<c[1], c[1] + Len(c[2]) - 1>> :
        c \in {c \in (1..Len(m)) \X PhonePatterns :
                  /\ Fits(c[2], m, c[1], sepClass)
                  /\ bounded =>
                        /\ (c[1] = 1 \/ m[c[1] - 1] \notin WordChars)
                        /\ (c[1] + Len(c[2]) > Len(m) \/ m[c[1] + Len(c[2])] \notin WordChars)}}

\* The leftmost such place as text, or the sentinel.
ExpectedContact(m, sepClass, bounded) ==
    LET spans == PhoneSpans(m, sepClass, bounded)
    IN  IF spans = {} THEN NoContactFound
        ELSE LET first == CHOOSE x \in spans : \A y \in spans : x[1] <= y[1]
             IN  SubSeq(m, first[1], first[2])

\* C3 as stated: contact is the first substring of the message that is 10
\* digits grouped 3-3-4 with nothing, "-", "." or one space at each group
\* boundary, and the sentinel when there is none.
C3_FirstPhoneShapedSubstring ==
    phase = "extracted" =>
        \A n \in 1..Len(referrals) :
            referrals[n].contact = ExpectedContact(referrals[n].message, {"-", ".", " "}, FALSE)

\* C3 amended: contact is the first substring of the message that is 10 digits
\* grouped 3-3-4 with nothing, "-", "." or one whitespace character at each
\* group boundary and that has no letter, digit or underscore right before or
\* right after it, and the sentinel when there is none.
C3_FirstDelimitedPhone ==
    phase = "extracted" =>
        \A n \in 1..Len(referrals) :
            referrals[n].contact
                = ExpectedContact(referrals[n].message, {"-", "."} \cup Whitespace, TRUE)

\* A record whose message holds two phone numbers and whose contact is one of them.
C3_Witness ==
    /\ phase = "extracted"
    /\ \E n \in 1..Len(referrals) :
          /\ Cardinality(PhoneSpans(referrals[n].message, {"-", "."} \cup Whitespace, TRUE)) >= 2
          /\ referrals[n].contact # NoContactFound

Letters == UpperLetters \cup LowerLetters

\* m[i..j] is a whole word: an upper-case letter and then lower-case letters.
CapitalisedWord(m, i, j) ==
    /\ 1 <= i /\ i < j /\ j <= Len(m)
    /\ m[i] \in UpperLetters
    /\ \A k \in (i + 1)..j : m[k] \in LowerLetters
    /\ (i = 1 \/ m[i - 1] \notin Letters)
    /\ (j = Len(m) \/ m[j + 1] \notin Letters)

\* m[i..j] is one or more such words, consecutive ones joined by one space.
WordRun(m, i, j) ==
    /\ \E b \in i..j : CapitalisedWord(m, i, b)
    /\ \E a \in i..j : CapitalisedWord(m, a, j)
    /\ \A k \in i..j :
          /\ m[k] \in Letters \cup {" "}
          /\ m[k] = " " => m[k - 1] \in Letters /\ m[k + 1] \in Letters
          /\ (m[k] \in Letters /\ (k = i \/ m[k - 1] = " ")) =>
                \E b \in k..j : CapitalisedWord(m, k, b)

\* m[i..j] is an upper-case letter and lower-case letters, any number of times
\* more after one whitespace character each; it need not begin or end a word.
CapitalisedRun(m, i, j) ==
    /\ 1 <= i /\ i < j /\ j <= Len(m)
    /\ m[i] \in UpperLetters
    /\ m[j] \in LowerLetters
    /\ \A k \in i..j :
          /\ m[k] \in Letters \cup Whitespace
          /\ m[k] \in UpperLetters =>
                (k = i \/ m[k - 1] \in Whitespace) /\ k < j /\ m[k + 1] \in LowerLetters
          /\ m[k] \in Whitespace => k < j /\ m[k + 1] \in UpperLetters

\* The leftmost, then longest, m[i..j] that Run accepts, or the sentinel.
FirstLongest(m, Run(_, _, _)) ==
    LET spans == {x \in (1..Len(m)) \X (1..Len(m)) : Run(m, x[1], x[2])}
    IN  IF spans = {} THEN UnknownBusiness
        ELSE LET first == CHOOSE x \in spans :
                              \A y \in spans : x[1] < y[1] \/ (x[1] = y[1] /\ x[2] >= y[2])
             IN  SubSeq(m, first[1], first[2])

\* C4 as stated: business_name is the first maximal run of words that each
\* are an upper-case letter followed by lower-case letters, joined by single
\* spaces, and the sentinel when there is none.
C4_FirstRunOfCapitalisedWords ==
    phase = "extracted" =>
        \A n \in 1..Len(referrals) :
            referrals[n].business_name = FirstLongest(referrals[n].message, WordRun)

\* C4 amended: business_name is the leftmost, longest substring of the message
\* made of an upper-case letter followed by one or more lower-case letters,
\* repeated after one whitespace character each; the substring need not start
\* or end at a word boundary; the sentinel when there is none.
C4_FirstCapitalisedSubstring ==
    phase = "extracted" =>
        \A n \in 1..Len(referrals) :
            referrals[n].business_name = FirstLongest(referrals[n].message, CapitalisedRun)

\* A record whose business name has several words.
C4_Witness ==
    /\ phase = "extracted"
    /\ \E n \in 1..Len(referrals) :
          /\ referrals[n].business_name # UnknownBusiness
          /\ \E k \in 1..Len(referrals[n].business_name) : referrals[n].business_name[k] = " "

(***************************************************************************)
(* Properties of the folders.  lastOp holds the last call, its inputs and   *)
(* the two folders as they were when it started; resp holds what the call   *)
(* returned, printed or raised.                                             *)
(***************************************************************************)

\* The records that extraction returns for a file content (none when it raises).
ExtractedFrom(bytes) == extract_service_referrals(bytes).referrals

\* The names of a folder that end in ".txt".
TxtNames(folder) == {f \in DOMAIN folder : EndsWith(f, Chars(".txt"))}

\* A name without its last extension.
BaseName(n) ==
    LET dots == {k \in 1..Len(n) : n[k] = "."}
    IN  IF dots = {} THEN n ELSE SubSeq(n, 1, (CHOOSE k \in dots : \A j \in dots : j <= k) - 1)

\* The output folder holds a JSON file and a CSV file, two files with one base
\* name, and the JSON file reads back as the records.
HoldsBothOutputs(folder, records) ==
    \E j, c \in DOMAIN folder :
        /\ j # c
        /\ EndsWith(j, Chars(".json"))
        /\ EndsWith(c, Chars(".csv"))
        /\ BaseName(j) = BaseName(c)
        /\ json_load(folder[j]).ok
        /\ json_load(folder[j]).value = records

\* C5: in a batch run, a file that cannot be decoded stops the processing of
\* that file only: every decodable .txt file that was in the input folder is
\* deleted, and has both outputs written when it yields records.
C5_DecodeFailureSkipsOneFile ==
    lastOp.kind = "batch" =>
        \A f \in TxtNames(lastOp.uploads) :
            Decodable(lastOp.uploads[f]) =>
                /\ f \notin DOMAIN uploads
                /\ ExtractedFrom(lastOp.uploads[f]) # <<>> =>
                      HoldsBothOutputs(data, ExtractedFrom(lastOp.uploads[f]))

\* C6: after a batch run that completed, no .txt file of the input folder it
\* started from is left there, and every other file is there unchanged.
C6_BatchDeletesEveryTxt ==
    (lastOp.kind = "batch" /\ resp.raised = "") =>
        /\ \A f \in TxtNames(lastOp.uploads) : f \notin DOMAIN uploads
        /\ \A f \in DOMAIN lastOp.uploads \ TxtNames(lastOp.uploads) :
              f \in DOMAIN uploads /\ uploads[f] = lastOp.uploads[f]

\* A completed batch run over a folder that held a .txt file without referrals
\* and a file of another extension.
C6_Witness ==
    /\ lastOp.kind = "batch"
    /\ resp.raised = ""
    /\ \E f \in TxtNames(lastOp.uploads) : ExtractedFrom(lastOp.uploads[f]) = <<>>
    /\ DOMAIN lastOp.uploads # TxtNames(lastOp.uploads)

\* Whether the query occurs in the message, letter case apart.
OccursIgnoringCase(query, message) ==
    \E i \in 1..(Len(message) + 1) :
        /\ i + Len(query) - 1 <= Len(message)
        /\ \A k \in 1..Len(query) : LowerChar(message[i + k - 1]) = LowerChar(query[k])

\* The records of the files listed from the k-th on whose message holds the
\* query, in listing order and in file order.
RECURSIVE MatchingRecords(_, _, _, _)
MatchingRecords(folder, listing, k, query) ==
    IF k > Len(listing) THEN <<>>
    ELSE (IF json_load(folder[listing[k]]).ok
          THEN SelectSeq(json_load(folder[listing[k]]).value,
                         LAMBDA r : OccursIgnoringCase(query, r.message))
          ELSE <<>>)
         \o MatchingRecords(folder, listing, k + 1, query)

\* C7: whatever the output folder holds, a search raises nothing and returns
\* the query and exactly the records whose message holds the query, letter
\* case apart, over the .json files in listing order.
C7_SearchReturnsMessageMatches ==
    lastOp.kind = "search" =>
        /\ resp.raised = ""
        /\ resp.query = lastOp.query
        /\ resp.results = MatchingRecords(lastOp.data, lastOp.listing, 1, lastOp.query)

\* C8: upload_chat removes no file of the input folder; when it returns, the
\* file uploaded is in the input folder with the bytes uploaded, and the
\* response holds the count and the list of the records extracted from those
\* bytes, or "No referrals found." when there is none.
C8_UploadKeepsFileAndReports ==
    lastOp.kind = "upload" =>
        /\ DOMAIN lastOp.uploads \subseteq DOMAIN uploads
        /\ \A f \in DOMAIN lastOp.uploads \ {lastOp.filename} : uploads[f] = lastOp.uploads[f]
        /\ resp.raised = "" =>
              /\ lastOp.filename \in DOMAIN uploads
              /\ uploads[lastOp.filename] = lastOp.bytes
              /\ IF ExtractedFrom(lastOp.bytes) = <<>>
                 THEN resp = [raised |-> "", message |-> "No referrals found."]
                 ELSE resp = [raised |-> "",
                              message |-> "Extracted "
                                              \o ToString(Len(ExtractedFrom(lastOp.bytes)))
                                              \o " referrals.",
                              data |-> ExtractedFrom(lastOp.bytes)]

\* An upload that returned records into an input folder that held another file.
C8_Witness ==
    /\ lastOp.kind = "upload"
    /\ resp.raised = ""
    /\ ExtractedFrom(lastOp.bytes) # <<>>
    /\ DOMAIN lastOp.uploads \ {lastOp.filename} # {}

\* C9: when an upload or a batch run extracts records from a file, whatever
\* its name, the output folder then holds a JSON file and a CSV file of one
\* base name and the JSON file reads back as those records; every file of the
\* output folder named .json parses.
C9_TwoOutputsThatRoundTrip ==
    /\ (lastOp.kind = "upload" /\ resp.raised = "" /\ ExtractedFrom(lastOp.bytes) # <<>>) =>
          HoldsBothOutputs(data, ExtractedFrom(lastOp.bytes))
    /\ lastOp.kind = "batch" =>
          \A f \in TxtNames(lastOp.uploads) \ DOMAIN uploads :
              ExtractedFrom(lastOp.uploads[f]) # <<>> =>
                  HoldsBothOutputs(data, ExtractedFrom(lastOp.uploads[f]))
    /\ \A n \in DOMAIN data : EndsWith(n, Chars(".json")) => json_load(data[n]).ok

\* The name with its extension replaced.
WithExtension(n, ext) == BaseName(n) \o ext

\* The records that the JSON output for a transcript name holds: none when
\* there is no such file or it does not parse.
HeldRecords(folder, n) ==
    IF /\ WithExtension(n, Chars(".json")) \in DOMAIN folder
       /\ json_load(folder[WithExtension(n, Chars(".json"))]).ok
    THEN json_load(folder[WithExtension(n, Chars(".json"))]).value
    ELSE <<>>

OutputsAfter(before, after, n, records) ==
    IF records = <<>>
    THEN after = before
    ELSE /\ DOMAIN after = DOMAIN before \cup {json_file(n), csv_file(n)}
         /\ after[csv_file(n)] = save_to_csv(records)
         /\ json_file(n) # csv_file(n) => after[json_file(n)] = save_to_json(records)
         /\ \A m \in DOMAIN before \ {json_file(n), csv_file(n)} : after[m] = before[m]

====
